---- MODULE Spec2Model ----
(***************************************************************************)
(* Announcements endpoints (backend/routers/announcements.py): the five    *)
(* handlers over announcements_collection, each split at its store calls,  *)
(* so that handlers of different requests interleave between store calls.  *)
(* Strings are sequences of character codes, compared as Python and the    *)
(* store compare them (code point by code point).                          *)
(***************************************************************************)
EXTENDS Integers, Sequences, FiniteSets, TLC

VARIABLES store, nextId, now, calls

vars == <<store, nextId, now, calls>>

\* ------------------------------------------------------------------ bounds
MaxId == 2        \* identifiers the store hands out: 1..MaxId
MaxClock == 2     \* the UTC clock runs over 1..MaxClock

Procs == {1, 2}   \* request slots of the server's thread pool

\* ----------------------------------------------------------------- strings
None == <<0>>     \* Python's None: no string holds the code 0
EmptyStr == <<>>

Digit(n) == 48 + n        \* the character of the digit n
IsDigit(c) == c \in 48..57
ZChar == {90}             \* "Z"
PlusChar == {43}          \* "+"
Zed == CHOOSE c \in ZChar : TRUE
Plus == CHOOSE c \in PlusChar : TRUE

\* a date-time string: the clock reading t, then nothing (naive), "Z", or
\* an explicit offset "+0h:00"
Naive(t) == <<Digit(t)>>
Zulu(t) == <<Digit(t), Zed>>
Offset(t, h) == <<Digit(t), Plus, Digit(h)>>
Garbage == <<120>>        \* "x", no date-time

\* str <= str, as Python and the store's $gte order strings
RECURSIVE StrLeq(_, _)
StrLeq(a, b) ==
    IF a = <<>> THEN TRUE
    ELSE IF b = <<>> THEN FALSE
    ELSE IF a[1] < b[1] THEN TRUE
    ELSE IF a[1] > b[1] THEN FALSE
    ELSE StrLeq(Tail(a), Tail(b))

\* s.replace('Z', '+00:00')
RECURSIVE ReplaceZ(_)
ReplaceZ(s) ==
    IF s = <<>> THEN <<>>
    ELSE (IF s[1] = Zed THEN <<Plus, Digit(0)>> ELSE <<s[1]>>) \o ReplaceZ(Tail(s))

\* datetime.fromisoformat(s): ok = FALSE is ValueError; a parsed value is
\* naive or aware, utc is its reading with the offset taken off
FromIsoFormat(s) ==
    IF Len(s) = 1 /\ IsDigit(s[1])
    THEN [ok |-> TRUE, aware |-> FALSE, utc |-> s[1] - 48]
    ELSE IF Len(s) = 3 /\ IsDigit(s[1]) /\ s[2] = Plus /\ IsDigit(s[3])
    THEN [ok |-> TRUE, aware |-> TRUE, utc |-> (s[1] - 48) - (s[3] - 48)]
    ELSE [ok |-> FALSE, aware |-> FALSE, utc |-> 0]

ParseDate(s) == FromIsoFormat(ReplaceZ(s))

\* datetime.utcnow().isoformat()
IsoNow == Naive(now)

\* bson.ObjectId(announcement_id) and str(_id)
InvalidId == 0
\* a conversion that takes any one-character string for an identifier
ObjectIdLenient(s) == IF Len(s) = 1 THEN s[1] - 48 ELSE InvalidId
ObjectId(s) == IF Len(s) = 1 /\ IsDigit(s[1]) /\ s[1] > 48 THEN s[1] - 48 ELSE InvalidId
Str(oid) == <<Digit(oid)>>
MalformedId == <<120>>

\* ------------------------------------------------------------------ inputs
Teachers == {"t1"}                  \* the _id values of teachers_collection
Usernames == {"t1", "nobody"}
IdStrings == {Str(i) : i \in 1..MaxId} \cup {MalformedId}
DateStrings ==
    {Naive(t) : t \in 1..MaxClock}
    \cup {Zulu(MaxClock), Offset(MaxClock, 1), Garbage, EmptyStr}

\* ------------------------------------------------------------------- state
Idle ==
    [pc |-> "idle", op |-> "none", id |-> None, username |-> "",
     message |-> None, start_date |-> None, expiration_date |-> None,
     outcome |-> "none", result |-> <<>>, lookups |-> <<>>]

\* a document the collection held before this router ran has no created_at
LegacyDoc ==
    [message |-> <<97>>, start_date |-> None, expiration_date |-> Naive(1),
     created_by |-> "t1"]

Init ==
    /\ store \in {[i \in {} |-> LegacyDoc], [i \in {1} |-> LegacyDoc]}
    /\ nextId = Cardinality(DOMAIN store) + 1
    /\ now = 1
    /\ calls = [p \in Procs |-> Idle]

Get(doc, key, default) == IF key \in DOMAIN doc THEN doc[key] ELSE default

\* a stored document as a handler returns it: _id converted to a string
WithId(oid) == [k \in DOMAIN store[oid] \cup {"_id"} |->
                  IF k = "_id" THEN Str(oid) ELSE store[oid][k]]

\* the documents find() yields, in every order the store may yield them
RECURSIVE Orders(_)
Orders(S) ==
    IF S = {} THEN {<<>>}
    ELSE UNION {{<<x>> \o t : t \in Orders(S \ {x})} : x \in S}

CreatedAtKey(doc) == Get(doc, "created_at", EmptyStr)

\* list.sort(key=created_at, reverse=True): a stable insertion of each
\* element after the elements whose key is >= its own
RECURSIVE InsertDesc(_, _)
InsertDesc(sorted, d) ==
    IF sorted = <<>> THEN <<d>>
    ELSE IF StrLeq(CreatedAtKey(d), CreatedAtKey(Head(sorted)))
         THEN <<Head(sorted)>> \o InsertDesc(Tail(sorted), d)
         ELSE <<d>> \o sorted

\* the sort without reverse=True: oldest first
RECURSIVE SortAsc(_)
SortAsc(docs) ==
    IF docs = <<>> THEN <<>>
    ELSE LET rest == SortAsc(SubSeq(docs, 1, Len(docs) - 1))
             d == docs[Len(docs)]
             before == SelectSeq(rest, LAMBDA x : StrLeq(CreatedAtKey(x), CreatedAtKey(d)))
             after == SelectSeq(rest, LAMBDA x : ~StrLeq(CreatedAtKey(x), CreatedAtKey(d)))
         IN before \o <<d>> \o after

RECURSIVE SortDesc(_)
SortDesc(docs) ==
    IF docs = <<>> THEN <<>>
    ELSE InsertDesc(SortDesc(SubSeq(docs, 1, Len(docs) - 1)), docs[Len(docs)])

\* the query {"expiration_date": {"$gte": now}}
MatchesQuery(oid, nowstr) == StrLeq(nowstr, store[oid].expiration_date)

\* the start_date filter of get_active_announcements
StartFilter(doc, nowstr) ==
    LET start_date == Get(doc, "start_date", None)
    IN start_date = None \/ StrLeq(start_date, nowstr)

\* a check that lets every caller through
IsTeacherAny(u) == TRUE
\* teachers_collection.find_one({"_id": username}) is truthy
IsTeacher(u) == u \in Teachers

Finish(p, outcome, result, looked) ==
    calls' = [calls EXCEPT ![p].pc = "done", ![p].outcome = outcome,
                           ![p].result = result,
                           ![p].lookups = @ \o looked]

\* ----------------------------------------------------------------- actions
\* GET /announcements/active: one find, then the filter and the sort
get_active_announcements(p) ==
    /\ calls[p].pc = "idle"
    /\ \E order \in Orders({oid \in DOMAIN store : MatchesQuery(oid, IsoNow)}) :
         LET found == [i \in 1..Len(order) |-> WithId(order[i])]
             active == SelectSeq(found, LAMBDA d : StartFilter(d, IsoNow))
         IN calls' = [calls EXCEPT ![p] =
                [Idle EXCEPT !.pc = "done", !.op = "get_active", !.outcome = "ok",
                             !.result = SortDesc(active),
                             !.lookups = <<"announcements">>]]
    /\ UNCHANGED <<store, nextId, now>>

\* a request arrives; its handler has not yet run
CallGetAll(p, username) ==
    /\ calls[p].pc = "idle"
    /\ calls' = [calls EXCEPT ![p] =
           [Idle EXCEPT !.pc = "auth", !.op = "get_all", !.username = username]]
    /\ UNCHANGED <<store, nextId, now>>

CallCreate(p, message, start_date, expiration_date, created_by) ==
    /\ calls[p].pc = "idle"
    /\ nextId + Cardinality({q \in Procs : calls[q].pc \in {"auth", "insert"}
                                            /\ calls[q].op = "create"}) <= MaxId
    /\ calls' = [calls EXCEPT ![p] =
           [Idle EXCEPT !.pc = "auth", !.op = "create", !.username = created_by,
                        !.message = message, !.start_date = start_date,
                        !.expiration_date = expiration_date]]
    /\ UNCHANGED <<store, nextId, now>>

CallUpdate(p, announcement_id, username, message, start_date, expiration_date) ==
    /\ calls[p].pc = "idle"
    /\ calls' = [calls EXCEPT ![p] =
           [Idle EXCEPT !.pc = "auth", !.op = "update", !.id = announcement_id,
                        !.username = username, !.message = message,
                        !.start_date = start_date,
                        !.expiration_date = expiration_date]]
    /\ UNCHANGED <<store, nextId, now>>

CallDelete(p, announcement_id, username) ==
    /\ calls[p].pc = "idle"
    /\ calls' = [calls EXCEPT ![p] =
           [Idle EXCEPT !.pc = "auth", !.op = "delete", !.id = announcement_id,
                        !.username = username]]
    /\ UNCHANGED <<store, nextId, now>>

\* the first statement of every handler but get_active_announcements
BodyOf(op) ==
    CASE op = "get_all" -> "find"
      [] op = "create" -> "insert"
      [] op = "update" -> "find_one"
      [] op = "delete" -> "delete_one"

VerifyTeacher(p) ==
    /\ calls[p].pc = "auth"
    /\ IF IsTeacher(calls[p].username)
       THEN calls' = [calls EXCEPT ![p].pc = BodyOf(calls[p].op),
                                   ![p].lookups = @ \o <<"teachers">>]
       ELSE Finish(p, "Unauthorized", <<>>, <<"teachers">>)
    /\ UNCHANGED <<store, nextId, now>>

\* GET /announcements/all after the check
get_all_announcements(p) ==
    /\ calls[p].pc = "find"
    /\ \E order \in Orders(DOMAIN store) :
         Finish(p, "ok", SortDesc([i \in 1..Len(order) |-> WithId(order[i])]),
                <<"announcements">>)
    /\ UNCHANGED <<store, nextId, now>>

\* the date validation of create_announcement
CreateValidation(start_date, expiration_date) ==
    LET expiration_datetime == ParseDate(expiration_date)
        start_datetime == ParseDate(start_date)
    IN IF ~expiration_datetime.ok THEN "InvalidInput"
       ELSE IF start_date = None \/ start_date = EmptyStr THEN "ok"
       ELSE IF ~start_datetime.ok THEN "InvalidInput"
       ELSE IF start_datetime.aware # expiration_datetime.aware THEN "Crash"
       ELSE IF start_datetime.utc >= expiration_datetime.utc THEN "InvalidInput"
       ELSE "ok"

\* POST /announcements/create after the check
create_announcement(p) ==
    /\ calls[p].pc = "insert"
    /\ LET c == calls[p]
           verdict == CreateValidation(c.start_date, c.expiration_date)
           announcement_doc ==
               [message |-> c.message, start_date |-> c.start_date,
                expiration_date |-> c.expiration_date,
                created_by |-> c.username, created_at |-> IsoNow]
       IN IF verdict # "ok"
          THEN /\ Finish(p, verdict, <<>>, <<>>)
               /\ UNCHANGED <<store, nextId>>
          ELSE /\ store' = [i \in DOMAIN store \cup {nextId} |->
                              IF i = nextId THEN announcement_doc ELSE store[i]]
               /\ nextId' = nextId + 1
               /\ Finish(p, "ok",
                         [k \in DOMAIN announcement_doc \cup {"_id"} |->
                            IF k = "_id" THEN Str(nextId) ELSE announcement_doc[k]],
                         <<"announcements">>)
    /\ UNCHANGED now

\* PUT /announcements/update/{id}: the lookup of the existing document
update_find_one(p) ==
    /\ calls[p].pc = "find_one"
    /\ IF ObjectId(calls[p].id) = InvalidId
       THEN Finish(p, "InvalidInput", <<>>, <<>>)
       ELSE IF ObjectId(calls[p].id) \notin DOMAIN store
       THEN Finish(p, "NotFound", <<>>, <<"announcements">>)
       ELSE calls' = [calls EXCEPT ![p].pc = "update_one",
                                   ![p].lookups = @ \o <<"announcements">>]
    /\ UNCHANGED <<store, nextId, now>>

\* update_doc: the fields of the request that are not None
UpdateDoc(c) ==
    [k \in {f \in {"message", "start_date", "expiration_date"} : c[f] # None}
       |-> c[k]]

\* the date validation of update_announcement
UpdateValidation(update_doc) ==
    IF "start_date" \in DOMAIN update_doc /\ "expiration_date" \in DOMAIN update_doc
    THEN LET start_datetime == ParseDate(update_doc["start_date"])
             expiration_datetime == ParseDate(update_doc["expiration_date"])
         IN IF ~start_datetime.ok \/ ~expiration_datetime.ok THEN "InvalidInput"
            ELSE IF start_datetime.aware # expiration_datetime.aware THEN "Crash"
            ELSE IF start_datetime.utc >= expiration_datetime.utc THEN "InvalidInput"
            ELSE "ok"
    ELSE "ok"

\* a write that replaces message, start_date and expiration_date by the
\* request's values, None where the request supplied none
SetFieldsClearing(oid, update_doc) ==
    IF oid \in DOMAIN store
    THEN [store EXCEPT ![oid] =
            [k \in DOMAIN store[oid] |->
               IF k \in DOMAIN update_doc THEN update_doc[k]
               ELSE IF k \in {"message", "start_date", "expiration_date"} THEN None
               ELSE store[oid][k]]]
    ELSE store

\* update_one({"_id": oid}, {"$set": update_doc})
SetFields(oid, update_doc) ==
    IF oid \in DOMAIN store
    THEN [store EXCEPT ![oid] =
            [k \in DOMAIN store[oid] \cup DOMAIN update_doc |->
               IF k \in DOMAIN update_doc THEN update_doc[k] ELSE store[oid][k]]]
    ELSE store

\* PUT /announcements/update/{id}: validation and the write
update_one(p) ==
    /\ calls[p].pc = "update_one"
    /\ LET update_doc == UpdateDoc(calls[p])
           verdict == UpdateValidation(update_doc)
       IN IF verdict # "ok"
          THEN /\ Finish(p, verdict, <<>>, <<>>)
               /\ UNCHANGED store
          ELSE /\ store' = IF DOMAIN update_doc # {}
                           THEN SetFields(ObjectId(calls[p].id), update_doc)
                           ELSE store
               /\ calls' = [calls EXCEPT ![p].pc = "reread",
                              ![p].lookups = @ \o
                                 (IF DOMAIN update_doc # {}
                                  THEN <<"announcements">> ELSE <<>>)]
    /\ UNCHANGED <<nextId, now>>

\* PUT /announcements/update/{id}: the second find_one and updated["_id"]
update_reread(p) ==
    /\ calls[p].pc = "reread"
    /\ IF ObjectId(calls[p].id) \in DOMAIN store
       THEN Finish(p, "ok", WithId(ObjectId(calls[p].id)), <<"announcements">>)
       ELSE Finish(p, "Crash", <<>>, <<"announcements">>)
    /\ UNCHANGED <<store, nextId, now>>

\* a delete that removes every document up to the one named
DeleteUpTo(oid) == [i \in {j \in DOMAIN store : j > oid} |-> store[i]]

\* delete_one({"_id": oid}) where a document matches
DeleteOne(oid) == [i \in DOMAIN store \ {oid} |-> store[i]]

\* DELETE /announcements/delete/{id} after the check
delete_announcement(p) ==
    /\ calls[p].pc = "delete_one"
    /\ LET oid == ObjectId(calls[p].id)
       IN IF oid = InvalidId
          THEN /\ Finish(p, "InvalidInput", <<>>, <<>>)
               /\ UNCHANGED store
          ELSE IF oid \notin DOMAIN store
          THEN /\ Finish(p, "NotFound", <<>>, <<"announcements">>)
               /\ UNCHANGED store
          ELSE /\ store' = DeleteOne(oid)
               /\ Finish(p, "ok", <<>>, <<"announcements">>)
    /\ UNCHANGED <<nextId, now>>

\* the response is sent and the slot is free again
Return(p) ==
    /\ calls[p].pc = "done"
    /\ calls' = [calls EXCEPT ![p] = Idle]
    /\ UNCHANGED <<store, nextId, now>>

\* the UTC clock advances
Tick ==
    /\ now < MaxClock
    /\ now' = now + 1
    /\ UNCHANGED <<store, nextId, calls>>

\* a request arrives, its arguments drawn from the sets of I
Arrive(p, I) ==
    \/ \E u \in Usernames : CallGetAll(p, u)
    \/ \E m \in I.messages, s \in I.create_dates \cup {None},
          e \in I.create_dates, u \in Usernames :
         CallCreate(p, m, s, e, u)
    \/ \E id \in IdStrings, u \in Usernames, m \in I.update_messages \cup {None},
          s \in I.update_dates \cup {None}, e \in I.update_dates \cup {None} :
         CallUpdate(p, id, u, m, s, e)
    \/ \E id \in IdStrings, u \in Usernames : CallDelete(p, id, u)

Handle(p) ==
    \/ VerifyTeacher(p)
    \/ get_all_announcements(p)
    \/ create_announcement(p)
    \/ update_find_one(p)
    \/ update_one(p)
    \/ update_reread(p)
    \/ delete_announcement(p)
    \/ Return(p)

\* the server with the request slots P
Server(P, I) ==
    \/ \E p \in P : Arrive(p, I)
    \/ \E p \in P : get_active_announcements(p)
    \/ \E p \in P : Handle(p)
    \/ Tick

\* one request at a time; naive dates
Inputs ==
    [messages |-> {<<97>>}, create_dates |-> {Naive(2)},
     update_messages |-> {<<98>>}, update_dates |-> {Naive(1)}]

Next == Server({1}, Inputs)

Spec == Init /\ [][Next]_vars

\* one request at a time; every shape of date string
InputsDates ==
    [messages |-> {<<97>>}, create_dates |-> DateStrings,
     update_messages |-> {}, update_dates |-> {Naive(MaxClock), Zulu(MaxClock)}]

NextDates == Server({1}, InputsDates)

SpecDates == Init /\ [][NextDates]_vars

\* two requests in progress at a time
InputsRace ==
    [messages |-> {<<97>>}, create_dates |-> {Naive(MaxClock)},
     update_messages |-> {<<97>>}, update_dates |-> {}]

NextRace == Server(Procs, InputsRace)

SpecRace == Init /\ [][NextRace]_vars

\* ------------------------------------------------------------------ claims
Outcomes == {"ok", "Unauthorized", "InvalidInput", "NotFound"}

\* the step of slot p that leaves the program point pc
Leaves(p, pc) == calls[p].pc = pc /\ calls'[p].pc # pc

\* s names a point in time: the reading of a naive string is taken as UTC,
\* as the router itself writes and reads naive UTC strings
IsDateTime(s) == ParseDate(s).ok
Instant(s) == ParseDate(s).utc

\* C1: every stored announcement that has a start_date and an
\* expiration_date, both date-times, has start_date strictly earlier than
\* expiration_date.
C1_StartBeforeExpiration ==
    \A oid \in DOMAIN store :
        LET doc == store[oid]
        IN (/\ doc.start_date # None
            /\ IsDateTime(doc.start_date) /\ IsDateTime(doc.expiration_date))
           => Instant(doc.start_date) < Instant(doc.expiration_date)

\* C2: every call ends with success, Unauthorized, InvalidInput or NotFound,
\* whatever another call does between its store calls; none ends with an
\* unhandled failure.
C2_NoUnhandledFailure ==
    \A p \in Procs : calls[p].pc = "done" => calls[p].outcome \in Outcomes

\* the stored announcements that are active at the clock reading t, their
\* dates taken as points in time
ActiveAt(t) ==
    {oid \in DOMAIN store :
        /\ Instant(store[oid].expiration_date) >= t
        /\ \/ store[oid].start_date = None
           \/ Instant(store[oid].start_date) <= t}

\* the stored announcements whose dates are all date-times
WellDated ==
    {oid \in DOMAIN store :
        /\ IsDateTime(store[oid].expiration_date)
        /\ store[oid].start_date # None => IsDateTime(store[oid].start_date)}

ResultIds(result) == {result[i]["_id"] : i \in 1..Len(result)}

\* C3: list_active() returns exactly the stored announcements whose
\* expiration_date is at or after the current UTC time and whose start_date
\* is absent or at or before it, the dates compared as points in time.
C3_ActiveByInstant ==
    [][\A p \in Procs :
         (calls[p].pc = "idle" /\ calls'[p].op = "get_active")
         => \A oid \in WellDated :
               Str(oid) \in ResultIds(calls'[p].result) <=> oid \in ActiveAt(now)]_vars

\* the dates create() must refuse: one of them is no date-time, or
\* start_date is present and not strictly before expiration_date
RefusedByCreate(start_date, expiration_date) ==
    \/ ~IsDateTime(expiration_date)
    \/ start_date # None /\ ~IsDateTime(start_date)
    \/ start_date # None /\ Instant(start_date) >= Instant(expiration_date)

\* C4: create() by an existing teacher with such dates fails with
\* InvalidInput and inserts nothing.
C4_CreateRefusesBadDates ==
    [][\A p \in Procs :
         (/\ Leaves(p, "insert")
          /\ RefusedByCreate(calls[p].start_date, calls[p].expiration_date))
         => calls'[p].outcome = "InvalidInput" /\ store' = store]_vars

\* C5: update() by an existing teacher on an existing announcement with
\* both dates supplied and start_date not strictly before expiration_date
\* fails with InvalidInput and leaves the record as it was.
C5_UpdateRefusesBadDates ==
    [][\A p \in Procs :
         (/\ Leaves(p, "update_one")
          /\ calls[p].start_date # None /\ calls[p].expiration_date # None
          /\ IsDateTime(calls[p].start_date) /\ IsDateTime(calls[p].expiration_date)
          /\ Instant(calls[p].start_date) >= Instant(calls[p].expiration_date))
         => calls'[p].outcome = "InvalidInput" /\ store' = store]_vars

\* the fields an update() request supplies
Supplied(c) == {f \in {"message", "start_date", "expiration_date"} : c[f] # None}

\* C6: an update() changes only the fields among message, start_date and
\* expiration_date that the call supplied, in the record it names, and to
\* the values supplied; it adds and removes no record, and no step of any
\* call changes the created_by or the created_at of a record.
C6_UpdateFrame ==
    [][/\ \A p \in Procs :
            (calls[p].op = "update" /\ calls'[p] # calls[p])
            => /\ DOMAIN store' = DOMAIN store
               /\ \A oid \in DOMAIN store :
                    /\ DOMAIN store'[oid] = DOMAIN store[oid]
                    /\ \A k \in DOMAIN store[oid] :
                         \/ store'[oid][k] = store[oid][k]
                         \/ /\ calls[p].id = Str(oid)
                            /\ k \in Supplied(calls[p])
                            /\ store'[oid][k] = calls[p][k]
       /\ \A oid \in DOMAIN store \cap DOMAIN store' :
            /\ store'[oid].created_by = store[oid].created_by
            /\ ("created_at" \in DOMAIN store'[oid]) = ("created_at" \in DOMAIN store[oid])
            /\ CreatedAtKey(store'[oid]) = CreatedAtKey(store[oid])]_vars

\* an update that supplied only a message has succeeded on a record that
\* has a start_date, and another record is stored
C6_Witness ==
    \E p \in Procs :
        /\ calls[p].pc = "done" /\ calls[p].op = "update" /\ calls[p].outcome = "ok"
        /\ Supplied(calls[p]) = {"message"}
        /\ calls[p].result.message = calls[p].message
        /\ calls[p].result.start_date # None
        /\ Cardinality(DOMAIN store) >= 2

\* C7: delete() by an existing teacher with a well-formed id that matches no
\* stored announcement fails with NotFound and leaves the collection as it
\* was; with an id that matches one it removes that record and no other.
C7_DeleteExactlyOne ==
    [][\A p \in Procs : \A oid \in 1..MaxId :
         (Leaves(p, "delete_one") /\ calls[p].id = Str(oid))
         => IF oid \in DOMAIN store
            THEN /\ calls'[p].outcome = "ok"
                 /\ DOMAIN store' = DOMAIN store \ {oid}
                 /\ \A other \in DOMAIN store' : store'[other] = store[other]
            ELSE /\ calls'[p].outcome = "NotFound"
                 /\ store' = store]_vars

\* two deletes of one id have both run: the first removed the record while
\* another stayed, the second found nothing
C7_Witness ==
    \E p, q \in Procs :
        /\ p # q /\ calls[p].id = calls[q].id
        /\ calls[p].pc = "done" /\ calls[p].op = "delete" /\ calls[p].outcome = "ok"
        /\ calls[q].pc = "done" /\ calls[q].op = "delete" /\ calls[q].outcome = "NotFound"
        /\ DOMAIN store # {}

\* C8: a call of list_all, create, update or delete whose caller is no
\* teacher ends Unauthorized, whatever its other arguments, returns no data
\* and changes nothing; every change of the collection is a step of a call
\* whose caller is a teacher.
C8_UnauthorizedChangesNothing ==
    [][/\ \A p \in Procs :
            (/\ calls'[p] # calls[p]
             /\ calls'[p].op \in {"get_all", "create", "update", "delete"}
             /\ calls'[p].username \notin Teachers)
            => /\ store' = store
               /\ calls'[p].pc \in {"auth", "done"}
               /\ calls'[p].pc = "done"
                    => calls'[p].outcome = "Unauthorized" /\ calls'[p].result = <<>>
       /\ store' # store
            => \E p \in Procs : calls'[p] # calls[p] /\ calls[p].username \in Teachers]_vars

\* an update by a stranger with a malformed id and invalid dates has ended
\* Unauthorized
C8_Witness ==
    \E p \in Procs :
        /\ calls[p].pc = "done" /\ calls[p].op = "update"
        /\ calls[p].username \notin Teachers
        /\ calls[p].id = MalformedId
        /\ calls[p].start_date # None /\ calls[p].start_date = calls[p].expiration_date
        /\ calls[p].outcome = "Unauthorized"

\* C9: the results of list_active() and list_all() are sorted descending by
\* created_at as strings, a record without created_at counting as the empty
\* string and so coming after every record that has one; list_all() returns
\* every stored announcement exactly once.
C9_SortedNewestFirst ==
    [][\A p \in Procs :
         (/\ calls'[p].pc = "done" /\ calls[p].pc # "done"
          /\ calls'[p].op \in {"get_all", "get_active"}
          /\ calls'[p].outcome = "ok")
         => LET result == calls'[p].result
            IN /\ \A i, j \in 1..Len(result) :
                    i < j => /\ StrLeq(CreatedAtKey(result[j]), CreatedAtKey(result[i]))
                             /\ "created_at" \notin DOMAIN result[i]
                                  => CreatedAtKey(result[j]) = EmptyStr
               /\ calls'[p].op = "get_all"
                    => /\ Len(result) = Cardinality(DOMAIN store)
                       /\ \A oid \in DOMAIN store :
                            \E i \in 1..Len(result) : result[i] = WithId(oid)]_vars

\* list_all() has returned a record with a created_at followed by one
\* without
C9_Witness ==
    \E p \in Procs :
        /\ calls[p].pc = "done" /\ calls[p].op = "get_all" /\ calls[p].outcome = "ok"
        /\ Len(calls[p].result) >= 2
        /\ "created_at" \in DOMAIN calls[p].result[1]
        /\ "created_at" \notin DOMAIN calls[p].result[Len(calls[p].result)]

\* C10 as claimed: update() with a malformed id ends InvalidInput with no
\* read or write of the teacher store or the announcement store before it.
C10_InvalidIdBeforeAnyLookup ==
    \A p \in Procs :
        (/\ calls[p].pc = "done" /\ calls[p].op = "update"
         /\ calls[p].id = MalformedId)
        => calls[p].outcome = "InvalidInput" /\ calls[p].lookups = <<>>

\* C10 as amended: update() with a malformed id reads the teacher store
\* once, for the caller, and never touches the announcement store; it ends
\* InvalidInput when the caller is a teacher and Unauthorized when not.
C10_InvalidIdBeforeAnnouncementLookup ==
    \A p \in Procs :
        (/\ calls[p].pc = "done" /\ calls[p].op = "update"
         /\ calls[p].id = MalformedId)
        => /\ calls[p].lookups = <<"teachers">>
           /\ calls[p].outcome =
                 IF calls[p].username \in Teachers THEN "InvalidInput" ELSE "Unauthorized"

\* an update by a teacher with a malformed id has ended
C10_Witness ==
    \E p \in Procs :
        /\ calls[p].pc = "done" /\ calls[p].op = "update"
        /\ calls[p].id = MalformedId /\ calls[p].username \in Teachers
        /\ calls[p].outcome = "InvalidInput"

====
